---- MODULE Spec2Model ----
(***************************************************************************)
(* Model of the SSE client of src/lib/sse.ts: the readiness state machine, *)
(* the incremental record splitter, the record parser and the listener     *)
(* registry.  A JavaScript string is a sequence of one-character strings;  *)
(* the line feed, the carriage return and the space are "LF", "CR", " ".   *)
(***************************************************************************)
EXTENDS Integers, Sequences, FiniteSets, TLC

VARIABLES
    readyState,   \* SSE.readyState
    xhr,          \* SSE.xhr: "null" or "live"
    progress,     \* SSE.progress
    chunk,        \* SSE.chunk
    transport,    \* the XMLHttpRequest: "none" before stream() creates it, then "active"
    xhrDone,      \* xhr.readyState === XMLHttpRequest.DONE
    status,       \* xhr.status
    text,         \* the whole body the server sends
    sent,         \* how much of it the transport has received: xhr.responseText
    fired,        \* the terminal notifications the transport has delivered
    dispatched,   \* every event handed to dispatchEvent, in order
    dispatchedAt, \* SSE.readyState as the listeners of each of them found it
    fed,          \* the text handed to the record splitter so far
    last,         \* the last operation and the state it started from
    cutsOnly,     \* so far: stream(), then only non-empty progress increments
    listeners,    \* SSE.listeners: event type -> the callbacks registered, in order
    onHandler,    \* the event types the session has an own on<type> property for
    regOp,        \* the last call on the registry
    delivery,     \* if that was dispatchEvent: its event, who was invoked, its result
    record,       \* the lines of the record handed to _parseEventChunk
    lineBreak,    \* the line break between them
    parsed        \* what _parseEventChunk made of them

sessionVars == <<readyState, xhr, progress, chunk, transport, xhrDone, status,
                 text, sent, fired, dispatched, dispatchedAt, fed, last, cutsOnly>>
registryVars == <<listeners, onHandler, regOp, delivery>>
parserVars == <<record, lineBreak, parsed>>
vars == <<sessionVars, registryVars, parserVars>>

----------------------------------------------------------------------------
(* Readiness constants, src/lib/sse.ts:23-26 *)
INITIALIZING == -1
CONNECTING == 0
OPEN == 1
CLOSED == 2

(* Bounds of the model *)
MaxCloseAt == 3
MaxLog == 6

----------------------------------------------------------------------------
(* Characters and JavaScript string helpers *)
LF == "LF"
CR == "CR"
SP == " "
FIELD_SEPARATOR == ":"

IsWs(c) == c \in {SP, LF, CR}

Substring(S, a, b) == SubSeq(S, a + 1, b)       \* S.substring(a, b), 0-based
SubstringFrom(S, a) == SubSeq(S, a + 1, Len(S)) \* S.substring(a)

RECURSIVE TrimLeft(_)
TrimLeft(S) == IF S # <<>> /\ IsWs(Head(S)) THEN TrimLeft(Tail(S)) ELSE S

RECURSIVE TrimRight(_)
TrimRight(S) ==
    IF S # <<>> /\ IsWs(S[Len(S)]) THEN TrimRight(SubSeq(S, 1, Len(S) - 1)) ELSE S

Trim(S) == TrimRight(TrimLeft(S))

\* S.indexOf(c): the 0-based index of the first c, or -1
IndexOf(S, c) ==
    IF \E i \in 1..Len(S) : S[i] = c
    THEN (CHOOSE i \in 1..Len(S) : S[i] = c /\ \A j \in 1..(i - 1) : S[j] # c) - 1
    ELSE -1

At(S, q) == IF q < Len(S) THEN S[q + 1] ELSE "eof"   \* the character at 0-based q

----------------------------------------------------------------------------
(* Events.  kind tells an event parsed from record text ("record") from the *)
(* session's own events; type, id, data and readyState are the properties   *)
(* of the CustomSSEEvent.  An unset readyState is <<>>.                     *)
Null == <<"null">>
EmptyObject == <<"{}">>
NoEvent == [kind |-> "null", type |-> <<>>, id |-> <<>>, data |-> <<>>, readyState |-> <<>>]

\* new CustomSSEEvent(type): id '', data {}
CustomSSEEvent(kind, type) ==
    [kind |-> kind, type |-> type, id |-> <<>>, data |-> EmptyObject, readyState |-> <<>>]

MESSAGE == <<"m", "e", "s", "s", "a", "g", "e">>
F_ID == <<"i", "d">>
F_RETRY == <<"r", "e", "t", "r", "y">>
F_DATA == <<"d", "a", "t", "a">>
F_EVENT == <<"e", "v", "e", "n", "t">>

OpenEvent == CustomSSEEvent("open", <<"o", "p", "e", "n">>)
AbortEvent == CustomSSEEvent("abort", <<"a", "b", "o", "r", "t">>)
ErrorEvent(response) ==
    [CustomSSEEvent("error", <<"e", "r", "r", "o", "r">>) EXCEPT !.data = response]
ReadyStateChangeEvent(state) ==
    [CustomSSEEvent("readystatechange", <<"readystatechange">>) EXCEPT !.readyState = <<state>>]

----------------------------------------------------------------------------
(* data.split(/(\r\n|\r|\n){2}/g): the record separator *)

\* the lengths a line break (\r\n|\r|\n) can match at q, in the order the
\* regular expression tries them
LineBreakLens(S, q) ==
    IF At(S, q) = CR /\ At(S, q + 1) = LF THEN <<2, 1>>
    ELSE IF At(S, q) \in {CR, LF} THEN <<1>>
    ELSE <<>>

\* (\r\n|\r|\n){2} matched at q: where the match ends (-1: no match) and the
\* text the group captured, which is its last iteration
MatchSeparator(S, q) ==
    LET first == LineBreakLens(S, q)
        ok == {i \in 1..Len(first) : LineBreakLens(S, q + first[i]) # <<>>}
    IN  IF ok = {} THEN [end |-> -1, cap |-> <<>>]
        ELSE LET i == CHOOSE k \in ok : \A j \in ok : k <= j
                 p2 == q + first[i]
                 l2 == LineBreakLens(S, p2)[1]
             IN  [end |-> p2 + l2, cap |-> Substring(S, p2, p2 + l2)]

\* String.prototype.split with a separator that captures: the pieces between
\* the matches, each match's capture in between
RECURSIVE SplitFrom(_, _, _, _)
SplitFrom(S, p, q, out) ==
    IF q >= Len(S) THEN Append(out, SubstringFrom(S, p))
    ELSE LET m == MatchSeparator(S, q)
         IN  IF m.end = -1 THEN SplitFrom(S, p, q + 1, out)
             ELSE SplitFrom(S, m.end, m.end, out \o <<Substring(S, p, q), m.cap>>)

SplitRecords(S) == SplitFrom(S, 0, 0, <<>>)

----------------------------------------------------------------------------
(* chunk.split(/\n|\r\n|\r/): the lines of a record *)
LineBreakLen(S, q) ==
    IF At(S, q) = LF THEN 1
    ELSE IF At(S, q) = CR /\ At(S, q + 1) = LF THEN 2
    ELSE IF At(S, q) = CR THEN 1
    ELSE 0

RECURSIVE SplitLinesFrom(_, _, _, _)
SplitLinesFrom(S, p, q, out) ==
    IF q >= Len(S) THEN Append(out, SubstringFrom(S, p))
    ELSE LET l == LineBreakLen(S, q)
         IN  IF l = 0 THEN SplitLinesFrom(S, p, q + 1, out)
             ELSE SplitLinesFrom(S, q + l, q + l, Append(out, Substring(S, p, q)))

SplitLines(S) == SplitLinesFrom(S, 0, 0, <<>>)

\* the forEach body with data overwritten like the other fields
ParseLine_DataOverwrites(e, rawLine) ==
    LET line == TrimRight(rawLine)
        index == IndexOf(line, FIELD_SEPARATOR)
        field == Substring(line, 0, index)
        value == TrimLeft(SubstringFrom(line, index + 1))
    IN  IF index <= 0 THEN e
        ELSE IF field = F_DATA THEN [e EXCEPT !.data = value]
        ELSE IF field = F_ID THEN [e EXCEPT !.id = value]
        ELSE IF field = F_EVENT THEN [e EXCEPT !.event = value]
        ELSE IF field = F_RETRY THEN [e EXCEPT !.retry = value]
        ELSE e

\* the forEach body with a line that starts with the separator taken as data
ParseLine_CommentAsData(e, rawLine) ==
    LET line == TrimRight(rawLine)
        index == IndexOf(line, FIELD_SEPARATOR)
        field == Substring(line, 0, index)
        value == TrimLeft(SubstringFrom(line, index + 1))
    IN  IF index < 0 THEN e
        ELSE IF index = 0 \/ field = F_DATA THEN [e EXCEPT !.data = @ \o value]
        ELSE IF field = F_ID THEN [e EXCEPT !.id = value]
        ELSE IF field = F_EVENT THEN [e EXCEPT !.event = value]
        ELSE IF field = F_RETRY THEN [e EXCEPT !.retry = value]
        ELSE e

\* the body of the forEach of _parseEventChunk: one line applied to e
ParseLine(e, rawLine) ==
    LET line == TrimRight(rawLine)
        index == IndexOf(line, FIELD_SEPARATOR)
        field == Substring(line, 0, index)
        value == TrimLeft(SubstringFrom(line, index + 1))
    IN  IF index <= 0 THEN e
        ELSE IF field = F_DATA THEN [e EXCEPT !.data = @ \o value]
        ELSE IF field = F_ID THEN [e EXCEPT !.id = value]
        ELSE IF field = F_EVENT THEN [e EXCEPT !.event = value]
        ELSE IF field = F_RETRY THEN [e EXCEPT !.retry = value]
        ELSE e

RECURSIVE ParseLines(_, _, _)
ParseLines(e, lines, i) ==
    IF i > Len(lines) THEN e ELSE ParseLines(ParseLine(e, lines[i]), lines, i + 1)

\* e of _parseEventChunk after its forEach over the lines of c
ParseFields(c) ==
    ParseLines([id |-> Null, retry |-> Null, data |-> <<>>, event |-> MESSAGE],
               SplitLines(c), 1)

\* SSE._parseEventChunk
ParseEventChunk(c) ==
    IF Len(c) = 0 THEN NoEvent
    ELSE LET e == ParseFields(c)
         IN  [CustomSSEEvent("record", e.event) EXCEPT !.data = e.data, !.id = e.id]

----------------------------------------------------------------------------
(* The handlers of the session.  Each takes and returns the session as a   *)
(* record s: the fields of the SSE object (readyState, xhr, progress,      *)
(* chunk), what the XMLHttpRequest exposes (xhrDone, status, responseText),*)
(* the events dispatched so far (log) with the readyState each was         *)
(* dispatched at (at), the text split into records so far (fed), and      *)
(*   threw     a TypeError was raised and unwound the handler,             *)
(*   n         the number of events dispatched since the handler began,    *)
(*   closeAt   the listener invoked for the closeAt-th of them calls       *)
(*             close() (0: no listener does),                              *)
(*   syncAbort xhr.abort() delivers readystatechange and abort before it   *)
(*             returns, as XMLHttpRequest does for a request in flight.    *)
RECURSIVE close(_)
RECURSIVE dispatchEvent(_, _)

Throw(s) == [s EXCEPT !.threw = TRUE]

\* SSE.dispatchEvent as the session sees it: a null event is dropped, any
\* other is delivered, and a listener it is delivered to may call close()
dispatchEvent(s, e) ==
    IF s.threw \/ e = NoEvent THEN s
    ELSE LET s1 == [s EXCEPT !.log = Append(@, e), !.at = Append(@, s.readyState),
                             !.n = @ + 1]
         IN  IF s1.n = s1.closeAt THEN close(s1) ELSE s1

\* SSE._setReadyState
setReadyState(s, state) ==
    IF s.threw THEN s
    ELSE dispatchEvent([s EXCEPT !.readyState = state], ReadyStateChangeEvent(state))

\* SSE._checkStreamClosed
checkStreamClosed(s) ==
    IF s.threw \/ s.xhr = "null" THEN s
    ELSE IF s.xhrDone THEN setReadyState(s, CLOSED)
    ELSE s

\* SSE._onStreamFailure
onStreamFailure(s) == close(dispatchEvent(s, ErrorEvent(s.responseText)))

\* SSE._onStreamAbort
onStreamAbort(s) == close(dispatchEvent(s, AbortEvent))

\* this.xhr.abort(): a request in flight ends, and the transport may deliver
\* readystatechange (DONE) and abort to the session's handlers before returning
xhrAbort(s) ==
    IF s.syncAbort /\ ~s.xhrDone
    THEN onStreamAbort(checkStreamClosed([s EXCEPT !.xhrDone = TRUE]))
    ELSE s

\* SSE.close
close(s) ==
    IF s.threw \/ s.readyState = CLOSED THEN s
    ELSE IF s.xhr = "null" THEN Throw(s)
    ELSE setReadyState([xhrAbort(s) EXCEPT !.xhr = "null"], CLOSED)

\* the forEach over the split parts in _onStreamProgress
RECURSIVE ForEachPart(_, _, _)
ForEachPart(s, parts, i) ==
    IF i > Len(parts) \/ s.threw THEN s
    ELSE IF Len(Trim(parts[i])) = 0
         THEN LET d == dispatchEvent(s, ParseEventChunk(Trim(s.chunk)))
              IN  ForEachPart(IF d.threw THEN d ELSE [d EXCEPT !.chunk = <<>>], parts, i + 1)
         ELSE ForEachPart([s EXCEPT !.chunk = @ \o parts[i]], parts, i + 1)

\* _onStreamProgress without the cursor: the whole responseText is split
\* at every notification
onStreamProgress_NoCursor(s) ==
    IF s.threw \/ s.xhr = "null" THEN s
    ELSE IF s.status # 200 THEN onStreamFailure(s)
    ELSE LET s1 == IF s.readyState = CONNECTING
                   THEN setReadyState(dispatchEvent(s, OpenEvent), OPEN)
                   ELSE s
         IN  IF s1.threw THEN s1
             ELSE IF s1.xhr = "null" THEN Throw(s1)
             ELSE LET data == s1.responseText
                  IN  ForEachPart([s1 EXCEPT !.fed = @ \o data], SplitRecords(data), 1)

\* SSE._onStreamProgress
onStreamProgress(s) ==
    IF s.threw \/ s.xhr = "null" THEN s
    ELSE IF s.status # 200 THEN onStreamFailure(s)
    ELSE LET s1 == IF s.readyState = CONNECTING
                   THEN setReadyState(dispatchEvent(s, OpenEvent), OPEN)
                   ELSE s
         IN  IF s1.threw THEN s1
             ELSE IF s1.xhr = "null" THEN Throw(s1)   \* this.xhr.responseText of null
             ELSE LET data == SubstringFrom(s1.responseText, s1.progress)
                  IN  ForEachPart([s1 EXCEPT !.progress = @ + Len(data), !.fed = @ \o data],
                                  SplitRecords(data), 1)

\* SSE._onStreamLoaded
onStreamLoaded(s) ==
    LET s1 == onStreamProgress(s)
        d == dispatchEvent(s1, ParseEventChunk(s1.chunk))
    IN  IF d.threw THEN d ELSE [d EXCEPT !.chunk = <<>>]

\* SSE.stream
stream(s) ==
    LET s1 == setReadyState(s, CONNECTING)
    IN  IF s1.threw THEN s1 ELSE [s1 EXCEPT !.xhr = "live"]

----------------------------------------------------------------------------
(* The bodies a server sends: records rendered as field lines, each line   *)
(* ended by the line break nl and the record by a blank line.              *)
FieldLine(f, pad, v) == [f |-> f, pad |-> pad, v |-> v]
Line(l) == l.f \o <<FIELD_SEPARATOR>> \o l.pad \o l.v

RECURSIVE Render(_, _)
Render(rec, nl) ==
    IF rec = <<>> THEN nl ELSE Line(Head(rec)) \o nl \o Render(Tail(rec), nl)

LineBreaks == {<<LF>>, <<CR>>, <<CR, LF>>}

RecA == <<FieldLine(F_DATA, <<SP>>, <<"a">>)>>
RecB == <<FieldLine(F_ID, <<>>, <<"7">>), FieldLine(F_DATA, <<>>, <<"a">>)>>
RecC == <<FieldLine(F_EVENT, <<>>, <<"p">>), FieldLine(F_DATA, <<>>, <<"a">>)>>
Records == {RecA, RecB, RecC}

\* the renderings of one record the model sends
Rendered ==
    {[rec |-> RecA, nl |-> <<LF>>], [rec |-> RecC, nl |-> <<LF>>]}
        \cup {[rec |-> RecB, nl |-> nl] : nl \in LineBreaks}

RecordTexts == {Render(r.rec, r.nl) : r \in Rendered}
TailText == Line(FieldLine(F_DATA, <<>>, <<"t">>))       \* "data:t", no terminator
Texts == {Render(RecA, <<LF>>), TailText}
CutTexts == RecordTexts \cup {TailText, Render(RecA, <<LF>>) \o TailText}
ErrorBody == <<"o", "o", "p", "s">>

----------------------------------------------------------------------------
(* The state machine *)
ResponseText == SubSeq(text, 1, sent)

\* the session as the handlers see it, inc more characters having arrived
Local(inc, ca, sa) ==
    [readyState |-> readyState, xhr |-> xhr, progress |-> progress, chunk |-> chunk,
     xhrDone |-> xhrDone, status |-> status, responseText |-> SubSeq(text, 1, sent + inc),
     log |-> dispatched, at |-> dispatchedAt, fed |-> fed, threw |-> FALSE, n |-> 0,
     closeAt |-> ca, syncAbort |-> sa]

\* an XMLHttpRequest is in DONE when it delivers load, error or abort
Terminal(s) == [s EXCEPT !.xhrDone = TRUE]

ListenerClosed(s) == s.closeAt > 0 /\ s.n >= s.closeAt

\* the characters that can arrive with the next notification: none once the
\* session has aborted the request
Increments == IF xhr = "null" THEN {0} ELSE 0..(Len(text) - sent)

Commit(s, op, inc) ==
    /\ Len(dispatched) < MaxLog
    /\ readyState' = s.readyState
    /\ xhr' = s.xhr
    /\ progress' = s.progress
    /\ chunk' = s.chunk
    /\ xhrDone' = s.xhrDone
    /\ dispatched' = s.log
    /\ dispatchedAt' = s.at
    /\ fed' = s.fed
    /\ sent' = sent + inc
    /\ last' = [op |-> op, from |-> Len(dispatched), threw |-> s.threw,
                listenerClosed |-> ListenerClosed(s)]
    /\ cutsOnly' = /\ cutsOnly
                   /\ ~ListenerClosed(s)
                   /\ \/ op = "stream"
                      \/ op = "progress" /\ inc >= 1
    /\ UNCHANGED <<status, text, registryVars, parserVars>>

NoRegOp == [op |-> "none", type |-> "", cb |-> "", found |-> FALSE]
NoDelivery == [isNull |-> TRUE, type |-> "", pre |-> FALSE, prevents |-> {},
               onCalled |-> FALSE, invoked |-> <<>>, calls |-> <<>>, returned |-> TRUE]

RegistryInit ==
    /\ listeners = [t \in {} |-> <<>>]
    /\ onHandler = {}
    /\ regOp = NoRegOp
    /\ delivery = NoDelivery

\* no record has been handed to the parser
NotParsed == [event |-> NoEvent, retry |-> <<>>]

ParserIdle ==
    /\ record = <<>>
    /\ lineBreak = <<LF>>
    /\ parsed = NotParsed

SessionInit ==
    /\ readyState = INITIALIZING
    /\ xhr = "null"
    /\ progress = 0
    /\ chunk = <<>>
    /\ transport = "none"
    /\ xhrDone = FALSE
    /\ sent = 0
    /\ fired = {}
    /\ dispatched = <<>>
    /\ dispatchedAt = <<>>
    /\ fed = <<>>
    /\ last = [op |-> "new", from |-> 0, threw |-> FALSE, listenerClosed |-> FALSE]
    /\ cutsOnly = TRUE

\* the state after construction, the server answering 200 with one of the
\* bodies or 500 with an error body
Init ==
    /\ SessionInit
    /\ RegistryInit
    /\ ParserIdle
    /\ \/ status = 200 /\ text \in Texts
       \/ status = 500 /\ text = ErrorBody

\* the caller calls stream(), once
StreamOf(CA) ==
    /\ readyState = INITIALIZING
    /\ \E ca \in CA :
         LET s == stream(Local(0, ca, FALSE))
         IN  /\ Commit(s, "stream", 0)
             /\ transport' = IF s.threw THEN transport ELSE "active"
    /\ UNCHANGED fired

\* the transport delivers progress, inc more characters having arrived
ProgressOf(CA) ==
    /\ transport = "active"
    /\ \E inc \in Increments, ca \in CA, sa \in BOOLEAN :
         LET s == onStreamProgress(Local(inc, ca, sa)) IN Commit(s, "progress", inc)
    /\ UNCHANGED <<transport, fired>>

\* the transport delivers load, its one terminal notification
LoadedOf(CA) ==
    /\ transport = "active"
    /\ fired = {}
    /\ \E inc \in Increments, ca \in CA, sa \in BOOLEAN :
         LET s == onStreamLoaded(Terminal(Local(inc, ca, sa))) IN Commit(s, "load", inc)
    /\ fired' = {"load"}
    /\ UNCHANGED transport

Stream == StreamOf(0..MaxCloseAt)
Progress == ProgressOf(0..MaxCloseAt)
Loaded == LoadedOf(0..MaxCloseAt)

\* the caller calls close() outside any callback
Close ==
    /\ \E ca \in 0..MaxCloseAt, sa \in BOOLEAN :
         LET s == close(Local(0, ca, sa)) IN Commit(s, "close", 0)
    /\ UNCHANGED <<transport, fired>>

\* the transport delivers error, its one terminal notification
Failure ==
    /\ transport = "active"
    /\ fired = {}
    /\ \E ca \in 0..MaxCloseAt, sa \in BOOLEAN :
         LET s == onStreamFailure(Terminal(Local(0, ca, sa))) IN Commit(s, "error", 0)
    /\ fired' = {"error"}
    /\ UNCHANGED transport

\* the transport delivers abort, its one terminal notification
Abort ==
    /\ transport = "active"
    /\ fired = {}
    /\ \E ca \in 0..MaxCloseAt, sa \in BOOLEAN :
         LET s == onStreamAbort(Terminal(Local(0, ca, sa))) IN Commit(s, "abort", 0)
    /\ fired' = {"abort"}
    /\ UNCHANGED transport

\* the transport delivers readystatechange, having reached DONE or not
ReadyStateChange ==
    /\ transport = "active"
    /\ ~xhrDone
    /\ \E done \in BOOLEAN, ca \in 0..MaxCloseAt :
         LET s == checkStreamClosed([Local(0, ca, FALSE) EXCEPT !.xhrDone = done])
         IN  Commit(s, "readystatechange", 0)
    /\ UNCHANGED <<transport, fired>>

Next ==
    \/ Stream
    \/ Close
    \/ Progress
    \/ Loaded
    \/ Failure
    \/ Abort
    \/ ReadyStateChange

\* the session under every notification and call, in any order
Spec == Init /\ [][Next]_vars

----------------------------------------------------------------------------
(* The splitter alone: every body, cut in every way, no listener calling   *)
(* close(); progress notifications and the final load.                     *)
CutInit ==
    /\ SessionInit
    /\ RegistryInit
    /\ ParserIdle
    /\ status = 200
    /\ text \in CutTexts

CutStream == StreamOf({0})
CutProgress == ProgressOf({0})
CutLoaded == LoadedOf({0})

CutNext ==
    \/ CutStream
    \/ CutProgress
    \/ CutLoaded

SpecCuts == CutInit /\ [][CutNext]_vars

----------------------------------------------------------------------------
(* What the claims speak of *)
RecordEvents(log) == SelectSeq(log, LAMBDA e : e.kind = "record")
Count(log, kind) == Len(SelectSeq(log, LAMBDA e : e.kind = kind))
IsClosedChange(e) == e.kind = "readystatechange" /\ e.readyState = <<CLOSED>>
ClosedChanges(log) == Len(SelectSeq(log, IsClosedChange))

\* the events the last operation dispatched
New == SubSeq(dispatched, last.from + 1, Len(dispatched))

Notifications == {"progress", "load", "error", "abort", "readystatechange"}

\* the event a record stands for, from its field lines
RECURSIVE ConcatValues(_)
ConcatValues(lines) ==
    IF lines = <<>> THEN <<>> ELSE Head(lines).v \o ConcatValues(Tail(lines))

LastValue(lines, default) == IF lines = <<>> THEN default ELSE lines[Len(lines)].v

ExpectedEvent(rec) ==
    [kind |-> "record",
     type |-> LastValue(SelectSeq(rec, LAMBDA l : l.f = F_EVENT), MESSAGE),
     id |-> LastValue(SelectSeq(rec, LAMBDA l : l.f = F_ID), Null),
     data |-> ConcatValues(SelectSeq(rec, LAMBDA l : l.f = F_DATA)),
     readyState |-> <<>>]

RecordOf(t) == (CHOOSE r \in Rendered : Render(r.rec, r.nl) = t).rec

\* the record events of body t delivered whole, in one progress notification
\* to a session that stream() has just started
WholeEvents(t) ==
    RecordEvents(onStreamProgress(
        [readyState |-> CONNECTING, xhr |-> "live", progress |-> 0, chunk |-> <<>>,
         xhrDone |-> FALSE, status |-> 200, responseText |-> t, log |-> <<>>, at |-> <<>>,
         fed |-> <<>>,
         threw |-> FALSE, n |-> 0, closeAt |-> 0, syncAbort |-> FALSE]).log)

\* the records whose lines end in one character, LF or CR
PlainRecordTexts == {Render(r.rec, r.nl) : r \in {q \in Rendered : Len(q.nl) = 1}}

(* C1: a record cut into non-empty pieces, each delivered by one progress  *)
(* notification, dispatches the same record events as the record delivered *)
(* whole (here for the records whose line break is a single character).    *)
C1_CutsDispatchAsWhole ==
    (cutsOnly /\ last.op = "progress" /\ text \in PlainRecordTexts /\ sent = Len(text))
        => RecordEvents(dispatched) = WholeEvents(text)

(* C2: one progress notification that brings exactly one complete record   *)
(* to a started session with status 200 dispatches exactly one record      *)
(* event, with the record's type, id and data, and leaves chunk empty.     *)
C2_OneRecordOneEvent ==
    [][(/\ last'.op = "progress"
        /\ xhr = "live" /\ status = 200
        /\ text \in RecordTexts /\ sent = 0 /\ progress = 0 /\ chunk = <<>>
        /\ sent' = Len(text))
       => (/\ RecordEvents(dispatched') = <<ExpectedEvent(RecordOf(text))>>
           /\ chunk' = <<>>)]_vars

(* C3: once close() has dropped the handle, a transport notification       *)
(* dispatches nothing and changes neither readyState, chunk nor progress.  *)
C3_IgnoredAfterClose ==
    [][(/\ transport = "active" /\ xhr = "null" /\ readyState = CLOSED
        /\ last'.op \in Notifications)
       => (/\ dispatched' = dispatched
           /\ readyState' = readyState
           /\ chunk' = chunk
           /\ progress' = progress)]_vars

(* C4: open is dispatched at most once, and every record event has an open *)
(* dispatched before it.                                                   *)
C4_OpenOnceBeforeRecords ==
    /\ Count(dispatched, "open") <= 1
    /\ \A i \in 1..Len(dispatched) :
         dispatched[i].kind = "record" => \E j \in 1..(i - 1) : dispatched[j].kind = "open"

\* the values readyState has taken: every assignment to it is made by
\* _setReadyState, which dispatches a readystatechange carrying the value
RECURSIVE ReadyStates(_)
ReadyStates(log) ==
    IF log = <<>> THEN <<>>
    ELSE (IF Head(log).kind = "readystatechange" THEN Head(log).readyState ELSE <<>>)
             \o ReadyStates(Tail(log))

ReadinessTrace == <<INITIALIZING>> \o ReadyStates(dispatched)

(* C5: readiness never decreases, and once CLOSED takes no other value.    *)
C5_ReadinessMonotonic ==
    \A i \in 1..(Len(ReadinessTrace) - 1) :
        /\ ReadinessTrace[i] <= ReadinessTrace[i + 1]
        /\ ReadinessTrace[i] = CLOSED => ReadinessTrace[i + 1] = CLOSED

(* C6: readystatechange to CLOSED is dispatched at most once in all, and   *)
(* close() called when readiness is CLOSED dispatches nothing and changes  *)
(* no state.                                                               *)
C6_CloseIdempotent ==
    [][/\ ClosedChanges(dispatched') <= 1
       /\ (last'.op = "close" /\ readyState = CLOSED)
              => UNCHANGED <<readyState, xhr, progress, chunk, xhrDone, dispatched>>]_vars

\* the events of log from position from + 1 on
From(log, from) == SubSeq(log, from + 1, Len(log))

(* C9: a failure notification reaching a session that holds its handle (a  *)
(* progress with a status other than 200, an error, an abort) dispatches   *)
(* exactly one failure event, error carrying the response body or abort,   *)
(* before any readystatechange to CLOSED, dispatches no record event, and  *)
(* leaves readiness CLOSED.                                                *)
C9_FailureEndsClosed ==
    [][(/\ xhr = "live"
        /\ \/ last'.op \in {"error", "abort"}
           \/ last'.op = "progress" /\ status # 200)
       => LET new == From(dispatched', Len(dispatched))
              kind == IF last'.op = "abort" THEN "abort" ELSE "error"
          IN  /\ Count(new, "error") + Count(new, "abort") = 1
              /\ Count(new, kind) = 1
              /\ last'.op = "progress"
                     => \E i \in 1..Len(new) :
                            new[i].kind = "error" /\ new[i].data = SubSeq(text, 1, sent')
              /\ \A i \in 1..Len(dispatched') :
                     IsClosedChange(dispatched'[i])
                         => \E j \in 1..(i - 1) : dispatched'[j].kind = kind
              /\ Count(new, "record") = 0
              /\ readyState' = CLOSED]_vars

(* C10: a load notification (status 200) that finds unterminated text      *)
(* pending, in chunk or in its last increment, dispatches exactly one      *)
(* record event and leaves chunk empty; with nothing pending it dispatches *)
(* no record event.                                                        *)
C10_LoadFlushesOnce ==
    [][(last'.op = "load" /\ status = 200)
       => LET new == From(dispatched', Len(dispatched))
              data == SubSeq(text, progress + 1, sent')
          IN  /\ (Trim(chunk \o data) # <<>> /\ Len(SplitRecords(data)) = 1)
                     => (Count(new, "record") = 1 /\ chunk' = <<>>)
              /\ (chunk = <<>> /\ data = <<>>) => Count(new, "record") = 0]_vars

(* C11: when a listener invoked inside the progress or load handler (for    *)
(* open, readystatechange or a record event; status 200) calls close(),    *)
(* the handler completes without raising an error and readiness is CLOSED  *)
(* when it returns.                                                        *)
C11_CloseFromListenerSafe ==
    [][(last'.op \in {"progress", "load"} /\ status = 200 /\ last'.listenerClosed)
       => (~last'.threw /\ readyState' = CLOSED)]_vars

(* C12: close() called while readiness is not CLOSED, INITIALIZING         *)
(* included, completes without error, leaves the session with no transport *)
(* handle and readiness CLOSED, and dispatches exactly one                 *)
(* readystatechange.                                                       *)
C12_CloseFromAnyState ==
    [][(last'.op = "close" /\ readyState # CLOSED)
       => (/\ ~last'.threw
           /\ xhr' = "null"
           /\ readyState' = CLOSED
           /\ Count(From(dispatched', Len(dispatched)), "readystatechange") = 1)]_vars

\* the bodies of one record with more than one field line
MultiFieldTexts == {Render(r.rec, r.nl) : r \in {q \in Rendered : Len(q.rec) >= 2}}

(* C15: a single line break between two field lines, \r\n included, is not *)
(* a record boundary: a record of several field lines ended by a blank     *)
(* line, whatever its line break, brought whole by the first progress      *)
(* notification, is dispatched as one event holding all its fields.        *)
C15_SingleLineBreakNoBoundary ==
    (/\ text \in MultiFieldTexts
     /\ last.op = "progress" /\ last.from = 1 /\ sent = Len(text))
        => RecordEvents(dispatched) = <<ExpectedEvent(RecordOf(text))>>

\* readystatechange events of log carrying state
ChangesTo(log, state) ==
    {i \in 1..Len(log) : log[i].kind = "readystatechange" /\ log[i].readyState = <<state>>}

\* the operation runs close(): the caller's call, the close() that ends the
\* failure handlers, or a listener's call
RunsClose(op, st, listenerClosed) ==
    \/ op \in {"close", "error", "abort"}
    \/ op \in {"progress", "load"} /\ st # 200
    \/ listenerClosed

(* C18: a step that changes readyState dispatches a readystatechange whose *)
(* readyState is the new value; the listeners of every readystatechange    *)
(* find the attribute holding the value the event carries; readiness       *)
(* becomes CLOSED only in a step where the transport reports DONE to a     *)
(* session holding its handle or where close() runs, and in every such     *)
(* step that finds readiness not CLOSED.                                   *)
C18_ChangeDispatchedInStep ==
    [][/\ readyState' # readyState
           => ChangesTo(From(dispatched', Len(dispatched)), readyState') # {}
       /\ \A i \in 1..Len(dispatched') :
              dispatched'[i].kind = "readystatechange"
                  => dispatched'[i].readyState = <<dispatchedAt'[i]>>
       /\ (readyState # CLOSED /\ readyState' = CLOSED)
              => \/ last'.op = "readystatechange" /\ xhr = "live" /\ xhrDone'
                 \/ RunsClose(last'.op, status, last'.listenerClosed)
       /\ (/\ readyState # CLOSED
           /\ \/ last'.op = "readystatechange" /\ xhr = "live" /\ xhrDone'
              \/ last'.op = "close")
              => readyState' = CLOSED]_vars

\* a progress or load notification with status 200 that finds the handle
\* and is handled to its end
DataHandled(op, threw) ==
    op \in {"progress", "load"} /\ status = 200 /\ xhr = "live" /\ ~threw

(* C19: progress never decreases; after every data notification handled to *)
(* its end it is the length of the response text at that notification;     *)
(* the suffixes handed to the splitter, one after the other, are the text  *)
(* received up to the cursor, each character once; a notification with a   *)
(* failure status leaves progress and chunk unchanged.                     *)
C19_CursorFollowsText ==
    [][/\ progress' >= progress
       /\ DataHandled(last'.op, last'.threw) => progress' = sent'
       /\ fed' = SubSeq(text, 1, progress')
       /\ (last'.op \in {"progress", "load"} /\ status # 200)
              => (progress' = progress /\ chunk' = chunk)]_vars

\* the body has arrived in several increments and the last has been split
C19_Witness ==
    /\ cutsOnly
    /\ last.op = "progress" /\ last.from >= 3
    /\ progress = Len(text)
    /\ fed = text

(* C20: an event parsed from record text is dispatched only while          *)
(* readyState is OPEN: none while it is CONNECTING, none after it has      *)
(* become CLOSED.                                                          *)
C20_RecordsOnlyWhileOpen ==
    \A i \in 1..Len(dispatched) :
        dispatched[i].kind = "record" => dispatchedAt[i] = OPEN

----------------------------------------------------------------------------
(* The listener registry and dispatchEvent with its listeners.  A callback *)
(* is a name; whether it marks the event default-prevented when invoked is *)
(* an input of each dispatchEvent call (prevents), as is whether the event *)
(* arrives already marked (pre).  "on" names the on<type> handler.         *)
Types == {"message", "open"}
Callbacks == {"f", "g", "h"}

\* who marks the event default-prevented in one dispatchEvent call
Prevents == {{}} \cup {{c} : c \in Callbacks \cup {"on"}}

Has(reg, type) == type \in DOMAIN reg

\* listener is in the list of type
Registered(reg, type, listener) ==
    Has(reg, type) /\ \E i \in 1..Len(reg[type]) : reg[type][i] = listener

\* addEventListener without the indexOf test
addEventListener_NoIndexOf(reg, type, listener) ==
    LET cur == IF Has(reg, type) THEN reg[type] ELSE <<>>
    IN  [t \in DOMAIN reg \cup {type} |-> IF t = type THEN Append(cur, listener) ELSE reg[t]]

\* SSE.addEventListener
addEventListener(reg, type, listener) ==
    LET cur == IF Has(reg, type) THEN reg[type] ELSE <<>>
        new == IF \E i \in 1..Len(cur) : cur[i] = listener THEN cur ELSE Append(cur, listener)
    IN  [t \in DOMAIN reg \cup {type} |-> IF t = type THEN new ELSE reg[t]]

\* removeEventListener without the deletion of an emptied entry
removeEventListener_KeepEmpty(reg, type, listener) ==
    IF ~Has(reg, type) THEN reg
    ELSE [reg EXCEPT ![type] = SelectSeq(reg[type], LAMBDA el : el # listener)]

\* SSE.removeEventListener
removeEventListener(reg, type, listener) ==
    IF ~Has(reg, type) THEN reg
    ELSE LET filtered == SelectSeq(reg[type], LAMBDA el : el # listener)
         IN  IF Len(filtered) = 0
             THEN [t \in DOMAIN reg \ {type} |-> reg[t]]
             ELSE [reg EXCEPT ![type] = filtered]

\* every() replaced by forEach(): a prevented event is still delivered on
RECURSIVE Every_NoStop(_, _, _, _, _)
Every_NoStop(cbs, i, prevented, prevents, calls) ==
    IF i > Len(cbs) THEN [calls |-> calls, prevented |-> prevented, result |-> ~prevented]
    ELSE Every_NoStop(cbs, i + 1, prevented \/ cbs[i] \in prevents, prevents,
                      Append(calls, cbs[i]))

\* this.listeners[e.type].every(...): the callbacks invoked, in order, and
\* whether the event is default-prevented afterwards
RECURSIVE Every(_, _, _, _, _)
Every(cbs, i, prevented, prevents, calls) ==
    IF i > Len(cbs) THEN [calls |-> calls, prevented |-> prevented, result |-> TRUE]
    ELSE LET now == prevented \/ cbs[i] \in prevents
         IN  IF now THEN [calls |-> Append(calls, cbs[i]), prevented |-> TRUE, result |-> FALSE]
             ELSE Every(cbs, i + 1, now, prevents, Append(calls, cbs[i]))

\* the listeners among the callbacks invoked
ListenersOf(invoked) == SelectSeq(invoked, LAMBDA c : c # "on")

\* dispatchEvent without the test of e.defaultPrevented after the on<type>
\* handler
dispatchEventTo_NoOnStop(reg, on, isNull, type, pre, prevents) ==
    IF isNull
    THEN NoDelivery
    ELSE LET onCalled == type \in on
             afterOn == pre \/ (onCalled /\ "on" \in prevents)
             invokedOn == IF onCalled THEN <<"on">> ELSE <<>>
             d == [isNull |-> FALSE, type |-> type, pre |-> pre, prevents |-> prevents,
                   onCalled |-> onCalled, invoked |-> invokedOn, calls |-> <<>>,
                   returned |-> TRUE]
         IN  IF Has(reg, type)
             THEN LET r == Every(reg[type], 1, afterOn, prevents, invokedOn)
                  IN  [d EXCEPT !.invoked = r.calls, !.calls = ListenersOf(r.calls),
                                !.returned = r.result]
             ELSE d

\* SSE.dispatchEvent: what it invoked, in order ("on" the on<type> handler),
\* and what it returned
dispatchEventTo(reg, on, isNull, type, pre, prevents) ==
    IF isNull
    THEN NoDelivery
    ELSE LET onCalled == type \in on
             afterOn == pre \/ (onCalled /\ "on" \in prevents)
             invokedOn == IF onCalled THEN <<"on">> ELSE <<>>
             d == [isNull |-> FALSE, type |-> type, pre |-> pre, prevents |-> prevents,
                   onCalled |-> onCalled, invoked |-> invokedOn, calls |-> <<>>,
                   returned |-> TRUE]
         IN  IF onCalled /\ afterOn THEN [d EXCEPT !.returned = FALSE]
             ELSE IF Has(reg, type)
                  THEN LET r == Every(reg[type], 1, afterOn, prevents, invokedOn)
                       IN  [d EXCEPT !.invoked = r.calls, !.calls = ListenersOf(r.calls),
                                     !.returned = r.result]
                  ELSE d

AddEventListener ==
    \E type \in Types, cb \in Callbacks :
        /\ listeners' = addEventListener(listeners, type, cb)
        /\ regOp' = [op |-> "add", type |-> type, cb |-> cb,
                     found |-> Registered(listeners, type, cb)]
        /\ delivery' = NoDelivery
        /\ UNCHANGED <<onHandler, sessionVars, parserVars>>

RemoveEventListener ==
    \E type \in Types, cb \in Callbacks :
        /\ listeners' = removeEventListener(listeners, type, cb)
        /\ regOp' = [op |-> "remove", type |-> type, cb |-> cb,
                     found |-> Registered(listeners, type, cb)]
        /\ delivery' = NoDelivery
        /\ UNCHANGED <<onHandler, sessionVars, parserVars>>

\* the caller sets or deletes the session's on<type> property
SetOnHandler ==
    \E type \in Types, present \in BOOLEAN :
        /\ onHandler' = IF present THEN onHandler \cup {type} ELSE onHandler \ {type}
        /\ regOp' = [op |-> "on", type |-> type, cb |-> "on", found |-> FALSE]
        /\ delivery' = NoDelivery
        /\ UNCHANGED <<listeners, sessionVars, parserVars>>

DispatchEvent ==
    \E isNull \in BOOLEAN, type \in Types, pre \in BOOLEAN, prevents \in Prevents :
        /\ delivery' = dispatchEventTo(listeners, onHandler, isNull, type, pre, prevents)
        /\ regOp' = [op |-> "dispatch", type |-> type, cb |-> "", found |-> FALSE]
        /\ UNCHANGED <<listeners, onHandler, sessionVars, parserVars>>

RegistryNext ==
    \/ AddEventListener
    \/ RemoveEventListener
    \/ SetOnHandler
    \/ DispatchEvent

\* the registry of a session that is never started
RegistrySpecInit ==
    /\ SessionInit
    /\ RegistryInit
    /\ ParserIdle
    /\ status = 200
    /\ text = TailText

SpecRegistry == RegistrySpecInit /\ [][RegistryNext]_vars

----------------------------------------------------------------------------
(* Claims on the registry *)

\* the on<type> handler was invoked and left the event default-prevented
StoppedByOnHandler(d) == d.onCalled /\ (d.pre \/ "on" \in d.prevents)

\* the last call was dispatchEvent, and it got to the listeners of the type
Delivered ==
    /\ regOp.op = "dispatch"
    /\ ~delivery.isNull
    /\ ~StoppedByOnHandler(delivery)
    /\ Has(listeners, delivery.type)

Times(calls, cb) == Len(SelectSeq(calls, LAMBDA c : c = cb))

(* C7 as claimed: a listener marking the event default-prevented does not  *)
(* stop delivery; every registered listener is invoked once, in            *)
(* registration order, and the mark shows in the returned value alone.     *)
C7_AllListenersInvoked ==
    (Delivered /\ ~delivery.pre) =>
        /\ delivery.calls = listeners[delivery.type]
        /\ delivery.returned =
               ~(\E i \in 1..Len(delivery.calls) : delivery.calls[i] \in delivery.prevents)

(* C7 as amended: listeners are invoked once each in registration order up *)
(* to and including the first that leaves the event default-prevented; the *)
(* listeners after it are not invoked and dispatchEvent returns false.     *)
C7_DeliveryStopsAtPrevented ==
    Delivered =>
        LET L == listeners[delivery.type]
            c == delivery.calls
            marked(i) == delivery.pre \/ L[i] \in delivery.prevents
        IN  /\ Len(c) >= 1 /\ Len(c) <= Len(L)
            /\ \A i \in 1..Len(c) : c[i] = L[i]
            /\ \A i \in 1..(Len(c) - 1) : ~marked(i)
            /\ Len(c) < Len(L) => marked(Len(c))
            /\ delivery.returned = ~marked(Len(c))

C7_Witness ==
    /\ Delivered
    /\ Len(listeners[delivery.type]) >= 2
    /\ listeners[delivery.type][1] \in delivery.prevents
    /\ delivery.calls = <<listeners[delivery.type][1]>>
    /\ delivery.returned = FALSE

NoDuplicates ==
    \A t \in DOMAIN listeners :
        \A i, j \in 1..Len(listeners[t]) : listeners[t][i] = listeners[t][j] => i = j

(* C8 as claimed: no list holds a callback twice, and each registered      *)
(* callback is invoked exactly once per dispatched event of its type (an   *)
(* event that reaches the listeners not yet default-prevented).            *)
C8_InvokedExactlyOnce ==
    /\ NoDuplicates
    /\ (Delivered /\ ~delivery.pre)
           => \A i \in 1..Len(listeners[delivery.type]) :
                  Times(delivery.calls, listeners[delivery.type][i]) = 1

(* C8 as amended: no list holds a callback twice, and each registered      *)
(* callback is invoked at most once per dispatched event of its type:      *)
(* once, unless the on<type> handler or a listener registered before it    *)
(* left the event default-prevented, and then not at all.                  *)
C8_InvokedOnceUnlessStopped ==
    /\ NoDuplicates
    /\ (regOp.op = "dispatch" /\ ~delivery.isNull /\ Has(listeners, delivery.type))
           => LET L == listeners[delivery.type]
                  stopped(i) ==
                      \/ StoppedByOnHandler(delivery)
                      \/ i > 1 /\ (delivery.pre \/ \E j \in 1..(i - 1) : L[j] \in delivery.prevents)
              IN  \A i \in 1..Len(L) :
                      Times(delivery.calls, L[i]) = IF stopped(i) THEN 0 ELSE 1

\* a callback was added while registered, and the list did not grow
C8_Witness ==
    /\ regOp.op = "add"
    /\ Len(listeners[regOp.type]) >= 2
    /\ listeners[regOp.type][1] = regOp.cb

(* C13: dispatchEvent invokes the on<type> handler of the event's type, if *)
(* present, once and before any registered listener; if that handler       *)
(* marks the event default-prevented, no listener is invoked and           *)
(* dispatchEvent returns false; a null event invokes nothing and returns   *)
(* true.                                                                   *)
C13_OnHandlerFirst ==
    regOp.op = "dispatch" =>
        /\ delivery.isNull => (delivery.invoked = <<>> /\ delivery.returned = TRUE)
        /\ ~delivery.isNull =>
             /\ Times(delivery.invoked, "on") = IF delivery.type \in onHandler THEN 1 ELSE 0
             /\ delivery.type \in onHandler => delivery.invoked[1] = "on"
             /\ (delivery.type \in onHandler /\ "on" \in delivery.prevents)
                    => (delivery.invoked = <<"on">> /\ delivery.returned = FALSE)

\* the on<type> handler prevented an event whose type has listeners
C13_Witness ==
    /\ regOp.op = "dispatch"
    /\ ~delivery.isNull
    /\ delivery.type \in onHandler
    /\ "on" \in delivery.prevents
    /\ Has(listeners, delivery.type)
    /\ delivery.invoked = <<"on">>
    /\ delivery.returned = FALSE

\* S without its k-th element
Without(S, k) == SubSeq(S, 1, k - 1) \o SubSeq(S, k + 1, Len(S))

(* C14: removeEventListener(type, cb) takes cb out of the list of type and *)
(* keeps the other listeners of the type in their order and the lists of   *)
(* the other types as they are; a list left empty has its entry deleted;   *)
(* removing a callback that is not registered, or from a type with no      *)
(* entry, leaves the registry unchanged.                                   *)
C14_RemoveKeepsOthers ==
    [][regOp'.op = "remove"
       => LET type == regOp'.type
              cb == regOp'.cb
          IN  /\ \A t \in DOMAIN listeners \ {type} :
                     Has(listeners', t) /\ listeners'[t] = listeners[t]
              /\ DOMAIN listeners' \subseteq DOMAIN listeners
              /\ ~Registered(listeners, type, cb) => listeners' = listeners
              /\ Registered(listeners, type, cb)
                     => LET k == CHOOSE i \in 1..Len(listeners[type]) : listeners[type][i] = cb
                            rest == Without(listeners[type], k)
                        IN  IF rest = <<>> THEN ~Has(listeners', type)
                            ELSE Has(listeners', type) /\ listeners'[type] = rest]_vars

\* a registered callback was removed, two others of its type staying and
\* another type having listeners too
C14_Witness ==
    /\ regOp.op = "remove"
    /\ regOp.found
    /\ Has(listeners, regOp.type)
    /\ Len(listeners[regOp.type]) = 2
    /\ regOp.cb \notin {listeners[regOp.type][1], listeners[regOp.type][2]}
    /\ \E t \in DOMAIN listeners : t # regOp.type

----------------------------------------------------------------------------
(* The record parser alone: _parseEventChunk applied to every record of up *)
(* to MaxLines lines, written with each of the line breaks; the records of *)
(* field lines, and the records that mix field lines with lines the format *)
(* has no meaning for.                                                     *)
MaxLines == 4

\* a line as written: field name, separator (":" or none), padding, value
InputLine(f, sep, pad, v) == [f |-> f, sep |-> sep, pad |-> pad, v |-> v]
LineText(l) == l.f \o l.sep \o l.pad \o l.v
Colon == <<FIELD_SEPARATOR>>

FieldLines ==
    {InputLine(F_DATA, Colon, <<SP>>, <<"a">>), InputLine(F_DATA, Colon, <<SP>>, <<"b">>),
     InputLine(F_ID, Colon, <<SP>>, <<"7">>), InputLine(F_ID, Colon, <<>>, <<"8">>),
     InputLine(F_EVENT, Colon, <<SP>>, <<"p", "i", "n", "g">>),
     InputLine(F_EVENT, Colon, <<>>, <<"q">>),
     InputLine(F_RETRY, Colon, <<SP>>, <<"5">>), InputLine(F_RETRY, Colon, <<>>, <<"6">>)}

CommentLine == InputLine(<<>>, Colon, <<SP>>, <<"c">>)          \* ": c"
BareLine == InputLine(<<"x">>, <<>>, <<>>, <<>>)                \* "x", no separator
UnknownLine == InputLine(<<"u">>, Colon, <<>>, <<"x">>)         \* "u:x"
JunkLines == {CommentLine, BareLine, UnknownLine}

MixedLines ==
    JunkLines \cup {InputLine(F_DATA, Colon, <<SP>>, <<"a">>),
                    InputLine(F_ID, Colon, <<SP>>, <<"7">>),
                    InputLine(F_EVENT, Colon, <<>>, <<"q">>),
                    InputLine(F_RETRY, Colon, <<>>, <<"6">>)}

\* the records of up to MaxLines lines taken from lines
RecordsOf(lines) == UNION {[1..n -> lines] : n \in 0..MaxLines}

\* the lines of rec written one after the other, nl between them
RECURSIVE Join(_, _)
Join(rec, nl) ==
    IF rec = <<>> THEN <<>>
    ELSE IF Len(rec) = 1 THEN LineText(rec[1])
    ELSE LineText(Head(rec)) \o nl \o Join(Tail(rec), nl)

ParseInit ==
    /\ SessionInit
    /\ RegistryInit
    /\ status = 200
    /\ text = TailText
    /\ record \in RecordsOf(FieldLines)
    /\ lineBreak \in LineBreaks
    /\ parsed = NotParsed

ParseJunkInit ==
    /\ SessionInit
    /\ RegistryInit
    /\ status = 200
    /\ text = TailText
    /\ record \in RecordsOf(MixedLines)
    /\ lineBreak \in LineBreaks
    /\ parsed = NotParsed

\* _parseEventChunk is applied to the record
ParseChunk ==
    /\ parsed = NotParsed
    /\ LET c == Join(record, lineBreak)
       IN  parsed' = [event |-> ParseEventChunk(c), retry |-> ParseFields(c).retry]
    /\ UNCHANGED <<record, lineBreak, sessionVars, registryVars>>

\* the parser on records of field lines
SpecParse == ParseInit /\ [][ParseChunk]_vars

\* the parser on records with comments, bare lines and unknown fields
SpecParseJunk == ParseJunkInit /\ [][ParseChunk]_vars

----------------------------------------------------------------------------
(* Claims on the parser *)
Parsed == parsed # NotParsed /\ record # <<>>

\* the lines of rec that give field f
LinesOf(rec, f) == SelectSeq(rec, LAMBDA l : l.sep = Colon /\ l.f = f)

(* C16: the values of the data lines of a record are concatenated in line  *)
(* order with nothing between them; of the id, event and retry lines the   *)
(* last one gives the value; the event has type = the event value          *)
(* (default "message"), id = the id value (default null) and data = the    *)
(* concatenation.                                                          *)
C16_DataConcatenatedLastWins ==
    Parsed =>
        /\ parsed.event.kind = "record"
        /\ parsed.event.type = LastValue(LinesOf(record, F_EVENT), MESSAGE)
        /\ parsed.event.id = LastValue(LinesOf(record, F_ID), Null)
        /\ parsed.event.data = ConcatValues(LinesOf(record, F_DATA))
        /\ parsed.retry = LastValue(LinesOf(record, F_RETRY), Null)

\* event: ping, id: 7, data: a, data: b gives {type "ping", id "7", data "ab"}
C16_Witness ==
    /\ record = <<InputLine(F_EVENT, Colon, <<SP>>, <<"p", "i", "n", "g">>),
                  InputLine(F_ID, Colon, <<SP>>, <<"7">>),
                  InputLine(F_DATA, Colon, <<SP>>, <<"a">>),
                  InputLine(F_DATA, Colon, <<SP>>, <<"b">>)>>
    /\ lineBreak = <<CR, LF>>
    /\ parsed.event = [kind |-> "record", type |-> <<"p", "i", "n", "g">>, id |-> <<"7">>,
                       data |-> <<"a", "b">>, readyState |-> <<>>]

\* the lines of rec that name a field of the format
ValidLines(rec) == SelectSeq(rec, LAMBDA l : l \in FieldLines)

(* C17: comment lines, lines without a separator and lines with an unknown *)
(* field name are skipped: a record of such lines only yields one event of *)
(* type "message" with empty data and null id, and within a record with    *)
(* valid fields they do not change the event made from the valid fields.   *)
C17_JunkLinesSkipped ==
    Parsed =>
        IF ValidLines(record) = <<>>
        THEN parsed.event = [kind |-> "record", type |-> MESSAGE, id |-> Null,
                             data |-> <<>>, readyState |-> <<>>]
        ELSE parsed.event = ParseEventChunk(Join(ValidLines(record), lineBreak))

\* a record of a comment, a line without separator and an unknown field
C17_Witness ==
    /\ record = <<CommentLine, BareLine, UnknownLine>>
    /\ parsed.event.kind = "record"
    /\ parsed.event.type = MESSAGE
    /\ parsed.event.data = <<>>
    /\ parsed.event.id = Null

====
